---------------------------- MODULE Spec2Model ----------------------------
(***************************************************************************)
(* Member-usage validation of SMACH states (tue-robotics/executive_smach). *)
(*                                                                         *)
(* smach/state.py         State.check_member_variables and the analyser    *)
(*                        it runs on the source of State.execute           *)
(* smach/state_checks.py  the later revision of the whitespace functions,  *)
(*                        the tree transformers and the analyser           *)
(*                                                                         *)
(* Text is a sequence of characters.  The alphabet is a space, a tab, a    *)
(* line feed and "x", which stands for any character that is not white     *)
(* space.  In the source of a routine one "x" stands for the text of one   *)
(* statement, "#" for a comment and ")" for the rest of a def line that    *)
(* spans two lines.  A syntax tree is a tree of nodes, each with its type, *)
(* its position and its fields in the order ast.iter_fields yields them.   *)
(***************************************************************************)
EXTENDS Integers, Sequences, FiniteSets, TLC

VARIABLES
    ws_s,        \* whitespace functions: the string argument s
    ws_num_del,  \* whitespace functions: the argument num_del
    ws_op,       \* whitespace functions: the function called last
    ws_out,      \* whitespace functions: what that call returned or raised
    tr_in,       \* transformers: the tree handed to visit
    tr_op,       \* transformers: the transformer applied last
    tr_out,      \* transformers: the tree visit returned
    tr_back,     \* transformers: tr_out visited by StateCodeReverseTransformer
    source,      \* the source of the subject's execute: file, line, text, tree
    subject,     \* the subject's attributes: name -> kind of value
    member_variables_checked,  \* State._member_variables_checked
    _lines,      \* _lines of the analyser of the last check_member_variables
    exceptions,  \* exceptions of the compile of the last check_member_variables
    outcome,     \* how the last check_member_variables ended: returned or raised
    an,          \* a StateAttributeAnalyser of state_checks.py
    _outcomes,            \* State._outcomes
    _input_keys,          \* State._input_keys
    _output_keys,         \* State._output_keys
    _preempt_requested,   \* State._preempt_requested
    _shutdown_requested,  \* State._shutdown_requested
    requests,    \* where execute was at each request_preempt so far
    cs,          \* ConditionState: its settings and the frame of execute
    now          \* rospy.Time.now()

ws_vars == <<ws_s, ws_num_del, ws_op, ws_out>>
tr_vars == <<tr_in, tr_op, tr_out, tr_back>>
st_vars == <<member_variables_checked, _lines, exceptions, outcome>>
in_vars == <<source, subject>>
if_vars == <<_outcomes, _input_keys, _output_keys>>
pm_vars == <<_preempt_requested, _shutdown_requested, requests>>
cs_vars == <<cs, now>>
ob_vars == <<if_vars, pm_vars, cs_vars>>
vars == <<ws_vars, tr_vars, in_vars, st_vars, an, ob_vars>>

(***************************************************************************)
(* Bounds of the model.                                                    *)
(***************************************************************************)
MaxLen == 5      \* longest string handed to the whitespace functions
MaxDel == 2      \* largest num_del handed to del_spaces
MaxStmts == 2    \* most statements in the body of a routine
MaxAnalyse == 2  \* most calls of analyse on one analyser
FirstLine == 7   \* the line of "def execute" in its file
MaxRequests == 2 \* most calls of request_preempt and request_shutdown
MaxChecks == 2   \* largest max_checks of a ConditionState
MaxCalls == 4    \* most calls of the condition callback in one execute
MaxNow == 2      \* latest time

(***************************************************************************)
(* Python values: a call either returns a value or raises an exception.    *)
(***************************************************************************)
Return(v) == [exc |-> "", msg |-> "", val |-> v]
Raise(type, msg) == [exc |-> type, msg |-> msg, val |-> <<>>]

Min2(a, b) == IF a <= b THEN a ELSE b

(***************************************************************************)
(* str methods and slices used by the whitespace functions.                *)
(***************************************************************************)
Chars == {" ", "\t", "\n", "x"}
Whitespace == {" ", "\t", "\n"}

RECURSIVE lstrip(_)
lstrip(line) ==
    IF line # <<>> /\ Head(line) \in Whitespace THEN lstrip(Tail(line)) ELSE line

RECURSIVE rstrip(_)
rstrip(line) ==
    IF line # <<>> /\ line[Len(line)] \in Whitespace
    THEN rstrip(SubSeq(line, 1, Len(line) - 1))
    ELSE line

strip(line) == lstrip(rstrip(line))

\* line[:n]
SliceTo(line, n) == SubSeq(line, 1, Min2(n, Len(line)))

\* line[n:]
SliceFrom(line, n) == IF n >= Len(line) THEN <<>> ELSE SubSeq(line, n + 1, Len(line))

\* " " * n
Spaces(n) == [i \in 1..n |-> " "]

\* index of the first line feed of s, 0 when there is none
RECURSIVE FindLF(_, _)
FindLF(s, i) ==
    IF i > Len(s) THEN 0 ELSE IF s[i] = "\n" THEN i ELSE FindLF(s, i + 1)

\* s.splitlines(keepends): no empty last line after a final line feed
RECURSIVE splitlines(_, _)
splitlines(s, keepends) ==
    IF s = <<>> THEN <<>>
    ELSE LET brk == FindLF(s, 1)
         IN  IF brk = 0 THEN <<s>>
             ELSE <<SubSeq(s, 1, IF keepends THEN brk ELSE brk - 1)>>
                  \o splitlines(SliceFrom(s, brk), keepends)

\* sep.join(parts)
RECURSIVE join(_, _)
join(sep, parts) ==
    IF parts = <<>> THEN <<>>
    ELSE IF Len(parts) = 1 THEN parts[1]
    ELSE parts[1] \o sep \o join(sep, Tail(parts))

\* "\t" in s
HasTab(s) == \E i \in 1..Len(s) : s[i] = "\t"

\* repr(s) of a str, as text
ReprChar(c) == IF c = "\t" THEN "\\t" ELSE IF c = "\n" THEN "\\n" ELSE c

RECURSIVE ReprBody(_)
ReprBody(s) == IF s = <<>> THEN "" ELSE ReprChar(Head(s)) \o ReprBody(Tail(s))

Repr(s) == "'" \o ReprBody(s) \o "'"

\* min(list): raises ValueError on an empty list
RECURSIVE MinOf(_)
MinOf(ns) == IF Len(ns) = 1 THEN ns[1] ELSE Min2(ns[1], MinOf(Tail(ns)))

min(ns) ==
    IF ns = <<>> THEN Raise("ValueError", "min() arg is an empty sequence")
    ELSE Return(MinOf(ns))

(***************************************************************************)
(* state_checks.py: del_spaces, num_spaces, unindent_block.                *)
(***************************************************************************)
\* aux of del_spaces: a line that is not only whitespace must start with
\* num_del spaces, which are cut; a whitespace-only line passes unchanged
del_spaces_aux(line, num_del) ==
    IF strip(line) # <<>> /\ SliceTo(line, num_del) # Spaces(num_del)
    THEN Raise("ValueError", "removing more spaces than there are!")
    ELSE Return(IF strip(line) # <<>> THEN SliceFrom(line, num_del) ELSE line)

\* ''.join(map(aux, lines)): the first line that raises ends the map
RECURSIVE MapAux(_, _)
MapAux(lines, num_del) ==
    IF lines = <<>> THEN Return(<<>>)
    ELSE LET first == del_spaces_aux(Head(lines), num_del)
         IN  IF first.exc # "" THEN first
             ELSE LET rest == MapAux(Tail(lines), num_del)
                  IN  IF rest.exc # "" THEN rest
                      ELSE Return(first.val \o rest.val)

del_spaces(s, num_del) == MapAux(splitlines(s, TRUE), num_del)

\* the number of leading whitespace characters of every line
num_spaces(s) ==
    LET lines == splitlines(s, FALSE)
    IN  [i \in 1..Len(lines) |-> Len(lines[i]) - Len(lstrip(lines[i]))]

\* [l for l in s.splitlines() if l]
NonEmptyLines(s) == SelectSeq(splitlines(s, FALSE), LAMBDA l : l # <<>>)

unindent_block(s) ==
    IF HasTab(s) THEN Raise("ValueError", "No tabs allowed: " \o Repr(s))
    ELSE LET m == min(num_spaces(join(<<"\n">>, NonEmptyLines(s))))
         IN  IF m.exc # "" THEN m ELSE del_spaces(s, m.val)

(***************************************************************************)
(* state.py: del_spaces and unindent_block of the earlier revision, the    *)
(* one State.check_member_variables calls.  Only the line "\n" counts as   *)
(* empty, and only lines with leading whitespace count for the minimum.    *)
(***************************************************************************)
state_del_spaces_aux(line, num_del) ==
    IF line # <<"\n">> /\ SliceTo(line, num_del) # Spaces(num_del)
    THEN Raise("ValueError", "removing more spaces than there are!")
    ELSE Return(IF line # <<"\n">> THEN SliceFrom(line, num_del) ELSE line)

RECURSIVE state_MapAux(_, _)
state_MapAux(ls, num_del) ==
    IF ls = <<>> THEN Return(<<>>)
    ELSE LET first == state_del_spaces_aux(Head(ls), num_del)
         IN  IF first.exc # "" THEN first
             ELSE LET rest == state_MapAux(Tail(ls), num_del)
                  IN  IF rest.exc # "" THEN rest
                      ELSE Return(first.val \o rest.val)

state_del_spaces(s, num_del) == state_MapAux(splitlines(s, TRUE), num_del)

state_unindent_block(s) ==
    LET m == min(SelectSeq(num_spaces(s), LAMBDA x : x > 0))
    IN  IF m.exc # "" THEN m ELSE state_del_spaces(s, m.val)

\* s.expandtabs(tabsize): a tab becomes the spaces up to the next tab stop
RECURSIVE ExpandFrom(_, _, _)
ExpandFrom(s, column, tabsize) ==
    IF s = <<>> THEN <<>>
    ELSE IF Head(s) = "\t"
         THEN Spaces(tabsize - (column % tabsize))
              \o ExpandFrom(Tail(s), 0, tabsize)
         ELSE IF Head(s) = "\n"
              THEN <<"\n">> \o ExpandFrom(Tail(s), 0, tabsize)
              ELSE <<Head(s)>> \o ExpandFrom(Tail(s), (column + 1) % tabsize, tabsize)

expandtabs(s, tabsize) == ExpandFrom(s, 0, tabsize)

(***************************************************************************)
(* Syntax trees (Python 2 ast).  A field holds a node, a list of nodes or  *)
(* a value that is no node (a string, None).  The name of a node is its    *)
(* id (Name), attr (Attribute), n (Num) or s (Str).                        *)
(***************************************************************************)
Other(fname) == [fname |-> fname, kind |-> "other", items |-> <<>>]
One(fname, node) == [fname |-> fname, kind |-> "node", items |-> <<node>>]
Many(fname, nodes) == [fname |-> fname, kind |-> "list", items |-> nodes]

Node(type, name, col, fields) ==
    [type |-> type, name |-> name, lineno |-> 0, col_offset |-> col, fields |-> fields]

Load == Node("Load", "", 0, <<>>)
Store == Node("Store", "", 0, <<>>)
Add == Node("Add", "", 0, <<>>)

Name(id, ctx, col) == Node("Name", id, col, <<Other("id"), One("ctx", ctx)>>)
Num(n, col) == Node("Num", n, col, <<Other("n")>>)
Attribute(value, attr, ctx, col) ==
    Node("Attribute", attr, col, <<One("value", value), Other("attr"), One("ctx", ctx)>>)
Call(func, args, col) ==
    Node("Call", "", col,
         <<One("func", func), Many("args", args), Many("keywords", <<>>),
           Other("starargs"), Other("kwargs")>>)
BinOp(left, op, right, col) ==
    Node("BinOp", "", col, <<One("left", left), One("op", op), One("right", right)>>)

Expr(value, col) == Node("Expr", "", col, <<One("value", value)>>)
Assign(targets, value, col) ==
    Node("Assign", "", col, <<Many("targets", targets), One("value", value)>>)
If(test, body, col) ==
    Node("If", "", col, <<One("test", test), Many("body", body), Many("orelse", <<>>)>>)
For(target, iter, body, col) ==
    Node("For", "", col,
         <<One("target", target), One("iter", iter), Many("body", body),
           Many("orelse", <<>>)>>)
While(test, body, col) ==
    Node("While", "", col, <<One("test", test), Many("body", body), Many("orelse", <<>>)>>)
With(context_expr, body, col) ==
    Node("With", "", col,
         <<One("context_expr", context_expr), Other("optional_vars"), Many("body", body)>>)
Pass(col) == Node("Pass", "", col, <<>>)
Module(body) == Node("Module", "", 0, <<Many("body", body)>>)

\* isinstance(node, ast.stmt)
StmtTypes == {"Expr", "Assign", "If", "For", "While", "With", "Pass"}
\* the nodes that carry lineno and col_offset
Positioned(node) == node.type \notin {"Module", "Load", "Store", "Add"}

\* node.<fname> of a field that holds one node, and of one that holds a list
ItemsOf(node, fname) ==
    LET i == CHOOSE i \in DOMAIN node.fields : node.fields[i].fname = fname
    IN  node.fields[i].items
ChildOf(node, fname) == ItemsOf(node, fname)[1]

(***************************************************************************)
(* The statements a routine is made of, each on one line and named by its  *)
(* text, with the column of every node as ast.parse gives it.              *)
(***************************************************************************)
SelfAt(col) == Name("self", Load, col)
SelfAttr(attr, ctx, col) == Attribute(SelfAt(col), attr, ctx, col)
SelfCall(attr, args, col) == Call(SelfAttr(attr, Load, col), args, col)

\* the statement with the given text
ParseStmt(text) ==
    CASE text = "self.a" -> Expr(SelfAttr("a", Load, 0), 0)
      [] text = "self.f()" -> Expr(SelfCall("f", <<>>, 0), 0)
      [] text = "self.a = 1" -> Assign(<<SelfAttr("a", Store, 0)>>, Num("1", 9), 0)
      [] text = "x = self.a" ->
            Assign(<<Name("x", Store, 0)>>, SelfAttr("a", Load, 4), 0)
      [] text = "self.f(self.a)" ->
            Expr(SelfCall("f", <<SelfAttr("a", Load, 7)>>, 0), 0)
      [] text = "x + self.a" ->
            Expr(BinOp(Name("x", Load, 0), Add, SelfAttr("a", Load, 4), 0), 0)
      [] text = "if x: self.a" ->
            If(Name("x", Load, 3), <<Expr(SelfAttr("a", Load, 6), 6)>>, 0)
      [] text = "for i in x: self.f()" ->
            For(Name("i", Store, 4), Name("x", Load, 9),
                <<Expr(SelfCall("f", <<>>, 12), 12)>>, 0)
      [] text = "while x: self.a = 1" ->
            While(Name("x", Load, 6),
                  <<Assign(<<SelfAttr("a", Store, 9)>>, Num("1", 18), 9)>>, 0)
      [] text = "with x: self.f()" ->
            With(Name("x", Load, 5), <<Expr(SelfCall("f", <<>>, 8), 8)>>, 0)
      [] text = "self.a.b" -> Expr(Attribute(SelfAttr("a", Load, 0), "b", Load, 0), 0)

StmtSet ==
    {"self.a", "self.f()", "self.a = 1", "x = self.a", "self.f(self.a)",
     "x + self.a", "if x: self.a", "for i in x: self.f()", "while x: self.a = 1",
     "with x: self.f()", "self.a.b"}

(***************************************************************************)
(* ast.parse of a body whose statements each take one line.  A line whose  *)
(* text starts with "#" is a comment and is skipped like a blank line; a   *)
(* line whose text starts with ")" is the rest of a def line that spans    *)
(* two lines, which is no statement; a statement that does not start in    *)
(* column 0 is an unexpected indent.  The j-th statement line is the j-th  *)
(* statement, at that line.                                                *)
(***************************************************************************)
RECURSIVE Locate(_, _)
Locate(node, ln) ==
    [node EXCEPT
        !.lineno = IF Positioned(node) THEN ln ELSE 0,
        !.fields = [i \in DOMAIN node.fields |->
                      [node.fields[i] EXCEPT
                          !.items = [j \in DOMAIN node.fields[i].items |->
                                       Locate(node.fields[i].items[j], ln)]]]]

\* the first character of a line that is not whitespace, "" on a blank line
FirstChar(line) == IF strip(line) = <<>> THEN "" ELSE Head(strip(line))

\* the numbers of the lines that hold code, in order
CodeLineNos(ls) ==
    SelectSeq([i \in 1..Len(ls) |-> i], LAMBDA i : FirstChar(ls[i]) \notin {"", "#"})

\* the first code line from line i on that is no statement in column 0
RECURSIVE ParseError(_, _)
ParseError(ls, i) ==
    IF i > Len(ls) THEN Return("None")
    ELSE IF FirstChar(ls[i]) \in {"", "#"} THEN ParseError(ls, i + 1)
    ELSE IF Head(ls[i]) \in Whitespace
         THEN Raise("IndentationError", "unexpected indent")
    ELSE IF Head(ls[i]) # "x" THEN Raise("SyntaxError", "invalid syntax")
    ELSE ParseError(ls, i + 1)

parse(text, stmts) ==
    LET ls == splitlines(text, FALSE)
        at == CodeLineNos(ls)
        error == ParseError(ls, 1)
    IN  IF error.exc # "" THEN error
        ELSE Return(Module([j \in 1..Len(at) |-> Locate(ParseStmt(stmts[j]), at[j])]))

(***************************************************************************)
(* The transformers.                                                       *)
(***************************************************************************)
\* ast.copy_location(new_node, old_node)
copy_location(new_node, old_node) ==
    [new_node EXCEPT !.lineno = old_node.lineno, !.col_offset = old_node.col_offset]

RECURSIVE StateCodeTransformer_visit(_)

\* ast.NodeTransformer.generic_visit: every item of every field is visited
\* and replaced by what the visit returns
StateCodeTransformer_generic_visit(node) ==
    [node EXCEPT
        !.fields = [i \in DOMAIN node.fields |->
                      [node.fields[i] EXCEPT
                          !.items = [j \in DOMAIN node.fields[i].items |->
                                       StateCodeTransformer_visit(node.fields[i].items[j])]]]]

\* a variant of visit_Name that leaves the new node without a position
StateCodeTransformer_visit_Name_no_location(node) ==
    IF node.name = "self"
    THEN Attribute(node, "_state", Load, 0)
    ELSE StateCodeTransformer_generic_visit(node)

StateCodeTransformer_visit_Name(node) ==
    IF node.name = "self"
    THEN copy_location(Attribute(node, "_state", Load, 0), node)
    ELSE StateCodeTransformer_generic_visit(node)

StateCodeTransformer_visit(node) ==
    IF node.type = "Name" THEN StateCodeTransformer_visit_Name(node)
    ELSE StateCodeTransformer_generic_visit(node)

RECURSIVE StateCodeReverseTransformer_visit(_)

StateCodeReverseTransformer_generic_visit(node) ==
    [node EXCEPT
        !.fields = [i \in DOMAIN node.fields |->
                      [node.fields[i] EXCEPT
                          !.items = [j \in DOMAIN node.fields[i].items |->
                                       StateCodeReverseTransformer_visit(
                                           node.fields[i].items[j])]]]]

\* a variant of visit_Attribute that never replaces the node
StateCodeReverseTransformer_visit_Attribute_kept(node) ==
    StateCodeReverseTransformer_generic_visit(node)

StateCodeReverseTransformer_visit_Attribute(node) ==
    IF /\ node.name = "_state"
       /\ ChildOf(node, "value").type = "Name"
       /\ ChildOf(node, "value").name = "self"
    THEN ChildOf(node, "value")
    ELSE StateCodeReverseTransformer_generic_visit(node)

StateCodeReverseTransformer_visit(node) ==
    IF node.type = "Attribute" THEN StateCodeReverseTransformer_visit_Attribute(node)
    ELSE StateCodeReverseTransformer_generic_visit(node)

(***************************************************************************)
(* astor.to_source of an expression, stripped.                             *)
(***************************************************************************)
RECURSIVE JoinStr(_, _)
JoinStr(sep, parts) ==
    IF parts = <<>> THEN ""
    ELSE IF Len(parts) = 1 THEN parts[1]
    ELSE parts[1] \o sep \o JoinStr(sep, Tail(parts))

RECURSIVE to_source(_)
to_source(node) ==
    CASE node.type = "Name" -> node.name
      [] node.type = "Num" -> node.name
      [] node.type = "Attribute" -> to_source(ChildOf(node, "value")) \o "." \o node.name
      [] node.type = "Call" ->
            to_source(ChildOf(node, "func")) \o "("
            \o JoinStr(", ", [j \in DOMAIN ItemsOf(node, "args") |->
                                to_source(ItemsOf(node, "args")[j])])
            \o ")"
      [] node.type = "BinOp" ->
            "(" \o to_source(ChildOf(node, "left")) \o " + "
            \o to_source(ChildOf(node, "right")) \o ")"
      [] OTHER -> ""

_ast_unparse(node) == to_source(StateCodeReverseTransformer_visit(node))

(***************************************************************************)
(* StateAttributeAnalyser: the walk.  self is the analyser; a visit        *)
(* returns its output and the analyser as the visit leaves it.  None and   *)
(* False are one output: the code only tests outputs for truth.            *)
(***************************************************************************)
StateAttributeAnalyser(state, filename, line_offset) ==
    [_state |-> state, _filename |-> filename, _line_offset |-> line_offset,
     _lines |-> <<>>, _recent_lineno |-> 0, _recent_col_offset |-> 0]

Out(output, self) == [output |-> output, self |-> self]

_add_expr(self, expr) ==
    [self EXCEPT !._lines = Append(@, [expr |-> expr,
                                       lineno |-> self._recent_lineno,
                                       col_offset |-> self._recent_col_offset])]

_file_line_error(self) ==
    "\n  File \"" \o self._filename \o "\", line " \o ToString(self._recent_lineno)
    \o "\n\t"

RECURSIVE visit(_, _)

\* a variant of _visit_item that leaves the tracked position as the visit
\* set it
_visit_item_not_restored(self, node) ==
    visit(IF node.type \in StmtTypes
          THEN [self EXCEPT !._recent_lineno = node.lineno + self._line_offset,
                            !._recent_col_offset = node.col_offset]
          ELSE self,
          node)

\* of a node: the position of a statement is tracked while it is visited and
\* the tracked position is put back afterwards
_visit_item(self, node) ==
    LET entered ==
            IF node.type \in StmtTypes
            THEN [self EXCEPT !._recent_lineno = node.lineno + self._line_offset,
                              !._recent_col_offset = node.col_offset]
            ELSE self
        r == visit(entered, node)
    IN  Out(r.output, [r.self EXCEPT !._recent_lineno = self._recent_lineno,
                                     !._recent_col_offset = self._recent_col_offset])

\* for item in value: outputs.append(self._visit_item(item)), then any(outputs)
RECURSIVE VisitItems(_, _)
VisitItems(self, items) ==
    IF items = <<>> THEN Out(FALSE, self)
    ELSE LET first == _visit_item(self, Head(items))
             rest == VisitItems(first.self, Tail(items))
         IN  Out(first.output \/ rest.output, rest.self)

\* for field, value in ast.iter_fields(node): both branches of the loop body
\* return, so the loop ends in its first pass, on the first field
VisitFields(self, node) ==
    IF node.fields = <<>> THEN Out(FALSE, self)
    ELSE LET value == node.fields[1]
         IN  CASE value.kind = "list" -> VisitItems(self, value.items)
               [] value.kind = "node" -> _visit_item(self, value.items[1])
               [] OTHER -> Out(FALSE, self)

generic_visit(self, node) == VisitFields(self, node)

\* assert hasattr(<node.value>, '<node.attr>'), "<file and line>'<node.value>' has no attribute '<node.attr>'"
HasattrAssert(self, node) ==
    [kind |-> "hasattr", target |-> ChildOf(node, "value"), attr |-> node.name,
     msg |-> _file_line_error(self) \o "'" \o _ast_unparse(ChildOf(node, "value"))
             \o "' has no attribute '" \o node.name \o "'"]

visit_Attribute(self, node) ==
    LET expr == HasattrAssert(self, node)
        r == VisitFields(self, node)
    IN  IF r.output THEN Out(TRUE, _add_expr(r.self, expr)) ELSE r

\* assert callable(<node.func>) == True, "<file and line>'<node>' object is not callable"
CallableAssert(self, node) ==
    [kind |-> "callable", target |-> ChildOf(node, "func"), attr |-> "",
     msg |-> _file_line_error(self) \o "'" \o _ast_unparse(node)
             \o "' object is not callable"]

visit_Call(self, node) ==
    LET expr == CallableAssert(self, node)
        r == VisitFields(self, node)
    IN  IF r.output THEN Out(TRUE, _add_expr(r.self, expr)) ELSE r

visit_Name(node) == node.name = "self"

visit(self, node) ==
    CASE node.type = "Attribute" -> visit_Attribute(self, node)
      [] node.type = "Call" -> visit_Call(self, node)
      [] node.type = "Name" -> Out(visit_Name(node), self)
      [] OTHER -> generic_visit(self, node)

(***************************************************************************)
(* The values a check is evaluated on.  A value is the analyser, the       *)
(* subject, or one of the kinds an attribute of the subject holds: a       *)
(* string, a bound method, or an object whose one attribute b is a string. *)
(***************************************************************************)
Kinds == {"missing", "str", "method", "object"}

TypeName(v) ==
    CASE v = "analyser" -> "StateAttributeAnalyser"
      [] v = "subject" -> "TestState"
      [] v = "method" -> "instancemethod"
      [] v = "object" -> "Helper"
      [] OTHER -> v

NoAttribute(v, name) ==
    Raise("AttributeError",
          "'" \o TypeName(v) \o "' object has no attribute '" \o name \o "'")

\* getattr(v, name) in the scope of compile, where self is the analyser
getattr(self, v, name) ==
    CASE v = "analyser" ->
            IF name = "_state" THEN Return("subject") ELSE NoAttribute(v, name)
      [] v = "subject" ->
            IF name \in DOMAIN self._state /\ self._state[name] # "missing"
            THEN Return(self._state[name])
            ELSE NoAttribute(v, name)
      [] v = "object" -> IF name = "b" THEN Return("str") ELSE NoAttribute(v, name)
      [] OTHER -> NoAttribute(v, name)

\* hasattr(v, name)
hasattr(self, v, name) == getattr(self, v, name).exc = ""

\* callable(v)
callable(v) == v = "method"

\* the value of an expression in the scope of compile
RECURSIVE Eval(_, _)

\* the arguments of a call, left to right: the first that raises ends it
RECURSIVE EvalArgs(_, _)
EvalArgs(self, args) ==
    IF args = <<>> THEN Return(<<>>)
    ELSE LET first == Eval(self, Head(args))
         IN  IF first.exc # "" THEN first ELSE EvalArgs(self, Tail(args))

Eval(self, node) ==
    CASE node.type = "Name" ->
            IF node.name = "self" THEN Return("analyser")
            ELSE Raise("NameError", "name '" \o node.name \o "' is not defined")
      [] node.type = "Attribute" ->
            LET v == Eval(self, ChildOf(node, "value"))
            IN  IF v.exc # "" THEN v ELSE getattr(self, v.val, node.name)
      [] node.type = "Call" ->
            LET func == Eval(self, ChildOf(node, "func"))
                args == EvalArgs(self, ItemsOf(node, "args"))
            IN  IF func.exc # "" THEN func
                ELSE IF args.exc # "" THEN args
                ELSE IF ~callable(func.val)
                     THEN Raise("TypeError",
                                "'" \o TypeName(func.val) \o "' object is not callable")
                     ELSE Return("str")
      [] OTHER -> Return("int")

\* exec of one synthesized assert statement
exec(self, expr) ==
    LET target == Eval(self, expr.target)
    IN  IF target.exc # "" THEN target
        ELSE IF expr.kind = "hasattr"
             THEN IF hasattr(self, target.val, expr.attr) THEN Return("None")
                  ELSE Raise("AssertionError", expr.msg)
             ELSE IF callable(target.val) THEN Return("None")
                  ELSE Raise("AssertionError", expr.msg)

(***************************************************************************)
(* StateAttributeAnalyser.compile: every line is executed, what it raises  *)
(* is caught and kept, and one AssertionError reports all of it.           *)
(***************************************************************************)
\* the loop over self._lines from line i on, with the exceptions so far
RECURSIVE CompileLoop(_, _, _)
CompileLoop(self, i, excs) ==
    IF i > Len(self._lines) THEN excs
    ELSE LET e == exec(self, self._lines[i].expr)
         IN  CompileLoop(self, i + 1, IF e.exc # "" THEN Append(excs, e.msg) ELSE excs)

\* a variant of compile that gives up at the first line that fails
compile_first_failure_only(self) ==
    LET failed == {i \in 1..Len(self._lines) : exec(self, self._lines[i].expr).exc # ""}
        first == CHOOSE i \in failed : \A k \in failed : i <= k
        excs == IF failed = {} THEN <<>>
                ELSE <<exec(self, self._lines[first].expr).msg>>
    IN  [exceptions |-> excs,
         result |-> IF excs # <<>>
                    THEN Raise("AssertionError",
                               "\nIncorrect call(s):" \o JoinStr("\n", excs))
                    ELSE Return("None")]

compile(self) ==
    LET excs == CompileLoop(self, 1, <<>>)
    IN  [exceptions |-> excs,
         result |-> IF excs # <<>>
                    THEN Raise("AssertionError",
                               "\nIncorrect call(s):" \o JoinStr("\n", excs))
                    ELSE Return("None")]

(***************************************************************************)
(* State (state.py).                                                       *)
(***************************************************************************)
\* execute_contents_only: the lines after the def line, right-stripped and
\* joined by line feeds
execute_contents_only(execute_code) ==
    join(<<"\n">>, [i \in 1..(Len(execute_code) - 1) |-> rstrip(execute_code[i + 1])])

\* how a call ended
Ended(result) == [called |-> TRUE, exc |-> result.exc, msg |-> result.msg]
NotCalled == [called |-> FALSE, exc |-> "", msg |-> ""]

\* a variant of CheckedAfter that clears the flag when the call raises
CheckedAfter_cleared_on_raise(checked, result) == result.exc = ""

\* a variant of CheckedAfter that sets the flag before the analysis
CheckedAfter_set_first(checked, result) == TRUE

\* _member_variables_checked after a call that ended with result: the
\* assignment is the last statement, reached only if nothing raised
CheckedAfter(checked, result) == IF result.exc = "" THEN TRUE ELSE checked

\* the call on a State with these attributes and this source of execute: the
\* lines of the analyser, the exceptions compile caught, and how it ended
check_member_variables_run(self, execute) ==
    LET filename == execute.filename
        execute_code == execute.code
        line_offset == execute.lineno
        text == state_unindent_block(execute_contents_only(execute_code))
        parsed == parse(text.val, execute.stmts)
        tree == StateCodeTransformer_visit(parsed.val)
        analyser == visit(StateAttributeAnalyser(self, filename, line_offset), tree).self
        compiled == compile(analyser)
    IN  IF text.exc # "" THEN [_lines |-> <<>>, exceptions |-> <<>>, result |-> text]
        ELSE IF parsed.exc # ""
             THEN [_lines |-> <<>>, exceptions |-> <<>>, result |-> parsed]
             ELSE [_lines |-> analyser._lines, exceptions |-> compiled.exceptions,
                   result |-> compiled.result]

check_member_variables ==
    \E run \in {check_member_variables_run(subject, source)} :
        /\ _lines' = run._lines
        /\ exceptions' = run.exceptions
        /\ outcome' = Ended(run.result)
        /\ member_variables_checked' =
               CheckedAfter(member_variables_checked, run.result)
        /\ UNCHANGED <<in_vars, ws_vars, tr_vars, an, ob_vars>>

(***************************************************************************)
(* State (state.py): the outcomes, the userdata keys and the preempt       *)
(* flag.  A method that only reads is no action.                           *)
(***************************************************************************)
\* the names handed to the register methods
OutcomeNames == {"o"}
KeyNames == {"k"}

\* cs before a ConditionState is constructed
NoConditionState ==
    [pc |-> "none", max_checks |-> 0, timeout |-> 0, start_time |-> 0, n_checks |-> 0,
     outcome |-> "", results |-> <<>>, serviced |-> FALSE, ret |-> "", exc |-> ""]

\* State.__init__(outcomes): the fields it sets
State_init(outcomes) ==
    /\ _outcomes = outcomes
    /\ _input_keys = {}
    /\ _output_keys = {}
    /\ _preempt_requested = FALSE
    /\ _shutdown_requested = FALSE
    /\ requests = <<>>

register_outcomes ==
    /\ \E new_outcomes \in SUBSET OutcomeNames :
          _outcomes' = _outcomes \cup new_outcomes
    /\ UNCHANGED <<_input_keys, _output_keys, pm_vars, cs_vars>>
    /\ UNCHANGED <<ws_vars, tr_vars, in_vars, st_vars, an>>

register_io_keys ==
    /\ \E keys \in SUBSET KeyNames :
          /\ _input_keys' = _input_keys \cup keys
          /\ _output_keys' = _output_keys \cup keys
    /\ UNCHANGED <<_outcomes, pm_vars, cs_vars>>
    /\ UNCHANGED <<ws_vars, tr_vars, in_vars, st_vars, an>>

register_input_keys ==
    /\ \E keys \in SUBSET KeyNames : _input_keys' = _input_keys \cup keys
    /\ UNCHANGED <<_outcomes, _output_keys, pm_vars, cs_vars>>
    /\ UNCHANGED <<ws_vars, tr_vars, in_vars, st_vars, an>>

register_output_keys ==
    /\ \E keys \in SUBSET KeyNames : _output_keys' = _output_keys \cup keys
    /\ UNCHANGED <<_outcomes, _input_keys, pm_vars, cs_vars>>
    /\ UNCHANGED <<ws_vars, tr_vars, in_vars, st_vars, an>>

request_preempt ==
    /\ Len(requests) < MaxRequests
    /\ _preempt_requested' = TRUE
    /\ requests' = Append(requests, cs.pc)
    /\ UNCHANGED <<_shutdown_requested, if_vars, cs_vars>>
    /\ UNCHANGED <<ws_vars, tr_vars, in_vars, st_vars, an>>

service_preempt ==
    /\ _preempt_requested' = FALSE
    /\ UNCHANGED <<_shutdown_requested, requests, if_vars, cs_vars>>
    /\ UNCHANGED <<ws_vars, tr_vars, in_vars, st_vars, an>>

recall_preempt ==
    /\ _preempt_requested' = FALSE
    /\ UNCHANGED <<_shutdown_requested, requests, if_vars, cs_vars>>
    /\ UNCHANGED <<ws_vars, tr_vars, in_vars, st_vars, an>>

\* sets _shutdown_requested and calls request_preempt
request_shutdown ==
    /\ Len(requests) < MaxRequests
    /\ _shutdown_requested' = TRUE
    /\ _preempt_requested' = TRUE
    /\ requests' = Append(requests, cs.pc)
    /\ UNCHANGED <<if_vars, cs_vars>>
    /\ UNCHANGED <<ws_vars, tr_vars, in_vars, st_vars, an>>

(***************************************************************************)
(* StateAttributeAnalyser (state_checks.py): the constructor reads and     *)
(* parses the source of execute, analyse walks the tree and compiles.      *)
(***************************************************************************)
NoAnalyser ==
    [constructed |-> FALSE, self |-> StateAttributeAnalyser(<<>>, "", 0),
     _tree |-> Module(<<>>), init |-> NotCalled, analysed |-> 0,
     exceptions |-> <<>>, result |-> NotCalled]

\* a tab is expanded to the next multiple of 4 columns
TabSize == 4

\* the constructor on a State with these attributes and this source of
\* execute: the analyser, or what the constructor raised
StateAttributeAnalyser_new(state, execute) ==
    LET filename == execute.filename
        execute_code == execute.code
        line_offset == execute.lineno
        text == unindent_block(expandtabs(execute_contents_only(execute_code), TabSize))
        parsed == parse(text.val, execute.stmts)
    IN  IF text.exc # "" THEN [result |-> text, self |-> NoAnalyser.self, _tree |-> NoAnalyser._tree]
        ELSE IF parsed.exc # ""
             THEN [result |-> parsed, self |-> NoAnalyser.self, _tree |-> NoAnalyser._tree]
             ELSE [result |-> Return("None"),
                   self |-> StateAttributeAnalyser(state, filename, line_offset),
                   _tree |-> StateCodeTransformer_visit(parsed.val)]

StateAttributeAnalyser_init ==
    /\ an.init = NotCalled
    /\ \E new \in {StateAttributeAnalyser_new(subject, source)} :
          an' = [an EXCEPT !.constructed = new.result.exc = "",
                           !.init = Ended(new.result),
                           !.self = new.self,
                           !._tree = new._tree]
    /\ UNCHANGED <<in_vars, ws_vars, tr_vars, st_vars, ob_vars>>

analyse ==
    /\ an.constructed
    /\ an.analysed < MaxAnalyse
    /\ \E walked \in {visit(an.self, an._tree).self} :
          \E compiled \in {compile(walked)} :
             an' = [an EXCEPT !.self = walked,
                              !.analysed = @ + 1,
                              !.exceptions = compiled.exceptions,
                              !.result = Ended(compiled.result)]
    /\ UNCHANGED <<in_vars, ws_vars, tr_vars, st_vars, ob_vars>>

reset ==
    /\ an.constructed
    /\ an' = [an EXCEPT !.self = [an.self EXCEPT !._lines = <<>>]]
    /\ UNCHANGED <<in_vars, ws_vars, tr_vars, st_vars, ob_vars>>

(***************************************************************************)
(* ConditionState (condition_state.py).  execute runs in one thread while  *)
(* other threads call request_preempt and request_shutdown, so every read  *)
(* and every write of _preempt_requested by execute is a step of its own.  *)
(* cs.pc is the statement execute is at; cs.results is what the condition  *)
(* callback did at each of its calls.                                      *)
(***************************************************************************)
\* ConditionState.__init__(cond_cb, timeout = timeout, max_checks = max_checks);
\* a timeout of 0 is timeout = None
ConditionState_new(max_checks, timeout) ==
    [NoConditionState EXCEPT !.pc = "idle", !.max_checks = max_checks,
                             !.timeout = timeout]

\* while self._max_checks == -1 or n_checks <= self._max_checks
WhileTest(max_checks, n_checks) == max_checks = -1 \/ n_checks <= max_checks

\* if self._timeout and rospy.Time.now() - start_time > self._timeout
TimedOut(timeout, start_time, time) == timeout # 0 /\ time - start_time > timeout

\* a variant of AfterLoop in which execute returns right after the loop
AfterLoop_return == "return"

\* where execute goes on after the loop: the last test of preempt_requested
AfterLoop == "final_check"

CsFrame == UNCHANGED <<ws_vars, tr_vars, in_vars, st_vars, an, if_vars>>

execute_start ==
    /\ cs.pc = "idle"
    /\ cs' = [cs EXCEPT !.pc = "while", !.start_time = now, !.n_checks = 0,
                        !.outcome = "false"]
    /\ UNCHANGED <<now, pm_vars>> /\ CsFrame

execute_while ==
    /\ cs.pc = "while"
    /\ cs' = [cs EXCEPT !.pc = IF WhileTest(cs.max_checks, cs.n_checks)
                               THEN "timeout" ELSE AfterLoop]
    /\ UNCHANGED <<now, pm_vars>> /\ CsFrame

execute_timeout ==
    /\ cs.pc = "timeout"
    /\ cs' = [cs EXCEPT !.pc = IF TimedOut(cs.timeout, cs.start_time, now)
                               THEN AfterLoop ELSE "preempt_check"]
    /\ UNCHANGED <<now, pm_vars>> /\ CsFrame

\* if self.preempt_requested():
execute_preempt_check ==
    /\ cs.pc = "preempt_check"
    /\ cs' = [cs EXCEPT !.pc = IF _preempt_requested THEN "service_preempt"
                               ELSE "cond_cb"]
    /\ UNCHANGED <<now, pm_vars>> /\ CsFrame

\* self.service_preempt(); outcome = 'preempted'; break
execute_service_preempt ==
    /\ cs.pc = "service_preempt"
    /\ _preempt_requested' = FALSE
    /\ cs' = [cs EXCEPT !.pc = AfterLoop, !.outcome = "preempted", !.serviced = TRUE]
    /\ UNCHANGED <<now, _shutdown_requested, requests>> /\ CsFrame

\* the call of the condition callback, which returns true or false or raises
execute_cond_cb ==
    /\ cs.pc = "cond_cb"
    /\ Len(cs.results) < MaxCalls
    /\ \E result \in {"true", "false", "raise"} :
          cs' = CASE result = "true" ->
                       [cs EXCEPT !.results = Append(@, result), !.outcome = "true",
                                  !.pc = AfterLoop]
                  [] result = "raise" ->
                       [cs EXCEPT !.results = Append(@, result), !.pc = "raised",
                                  !.exc = "InvalidUserCodeError"]
                  [] OTHER ->
                       [cs EXCEPT !.results = Append(@, result),
                                  !.n_checks = @ + 1, !.pc = "sleep"]
    /\ UNCHANGED <<now, pm_vars>> /\ CsFrame

\* rospy.sleep(self._poll_rate)
execute_sleep ==
    /\ cs.pc = "sleep"
    /\ cs' = [cs EXCEPT !.pc = "while"]
    /\ now' = IF now < MaxNow THEN now + 1 ELSE now
    /\ UNCHANGED pm_vars /\ CsFrame

\* if self.preempt_requested(): after the loop
execute_final_check ==
    /\ cs.pc = "final_check"
    /\ cs' = [cs EXCEPT !.pc = IF _preempt_requested THEN "final_service_preempt"
                               ELSE "return"]
    /\ UNCHANGED <<now, pm_vars>> /\ CsFrame

\* self.service_preempt(); outcome = 'preempted'
execute_final_service_preempt ==
    /\ cs.pc = "final_service_preempt"
    /\ _preempt_requested' = FALSE
    /\ cs' = [cs EXCEPT !.pc = "return", !.outcome = "preempted", !.serviced = TRUE]
    /\ UNCHANGED <<now, _shutdown_requested, requests>> /\ CsFrame

\* return outcome
execute_return ==
    /\ cs.pc = "return"
    /\ cs' = [cs EXCEPT !.pc = "done", !.ret = cs.outcome]
    /\ UNCHANGED <<now, pm_vars>> /\ CsFrame

\* time passes
Tick ==
    /\ now < MaxNow
    /\ now' = now + 1
    /\ UNCHANGED <<cs, pm_vars>> /\ CsFrame

(***************************************************************************)
(* The subjects and the sources of their execute.                          *)
(***************************************************************************)
Subjects ==
    {[n \in {"a", "f"} |-> IF n = "a" THEN a ELSE f] :
        a \in {"missing", "str", "object"}, f \in {"missing", "str", "method"}}

\* the bodies of at most MaxStmts statements
Bodies == UNION {[1..n -> StmtSet] : n \in 1..MaxStmts}

\* ast.parse of the statements of a body, one to a line
TreeOf(stmts) == Module([j \in 1..Len(stmts) |-> Locate(ParseStmt(stmts[j]), j)])

NoTree == Module(<<>>)

NoCall == Return(<<>>)

Filename == "test_state_checks.py"

\* the def line and a body line: the indentation, the statement, a line feed
DefLine == <<" ", "x", "\n">>
Line(indent) == indent \o <<"x", "\n">>
Indent == <<" ", " ">>

\* the layouts of the lines after the def line, for a body of n statements
Layouts(n) ==
    {[j \in 1..n |-> Line(Indent)],                          \* two spaces
     [j \in 1..n |-> Line(<<"\t">>)],                        \* a tab
     [j \in 1..n |-> Indent \o <<"x", "\t", "x", "\n">>],    \* a tab in the statement
     [j \in 1..(2 * n - 1) |->                               \* blank lines between
         IF j % 2 = 1 THEN Line(Indent) ELSE <<" ", " ", " ", "\n">>],
     [j \in 1..(n + 1) |->                                   \* a comment in column 0
         IF j = n THEN <<"#", "\n">> ELSE Line(Indent)],
     [j \in 1..(n + 1) |->                                   \* a def line of two lines
         IF j = 1 THEN Indent \o <<")", "\n">> ELSE Line(Indent)]}

Sources ==
    UNION {{[filename |-> Filename, lineno |-> FirstLine,
             code |-> <<DefLine>> \o layout, stmts |-> body] :
               layout \in Layouts(Len(body))} : body \in Bodies}

NoSource == [filename |-> Filename, lineno |-> FirstLine, code |-> <<DefLine>>, stmts |-> <<>>]
NoSubject == [n \in {"a", "f"} |-> "missing"]

(***************************************************************************)
(* The idle parts of a specification: each specification drives one part   *)
(* of the state and leaves the others as they are here.                    *)
(***************************************************************************)
IdleWhitespace == ws_s = <<>> /\ ws_num_del = 0 /\ ws_op = "none" /\ ws_out = NoCall
IdleTransformer ==
    tr_in = NoTree /\ tr_op = "none" /\ tr_out = NoTree /\ tr_back = NoTree
IdleInputs == source = NoSource /\ subject = NoSubject
IdleState ==
    /\ member_variables_checked = FALSE
    /\ _lines = <<>>
    /\ exceptions = <<>>
    /\ outcome = NotCalled
IdleAnalyser == an = NoAnalyser
IdleConditionState == cs = NoConditionState /\ now = 0

(***************************************************************************)
(* Spec: a State is constructed, and check_member_variables is called on   *)
(* it.                                                                     *)
(***************************************************************************)
Init ==
    /\ source \in Sources
    /\ subject \in Subjects
    /\ IdleState
    /\ State_init({}) /\ IdleConditionState
    /\ IdleWhitespace /\ IdleTransformer /\ IdleAnalyser

Next == check_member_variables

Spec == Init /\ [][Next]_vars

(***************************************************************************)
(* SpecAnalyser: a StateAttributeAnalyser of state_checks.py is            *)
(* constructed for a State, and used.                                      *)
(***************************************************************************)
\* the routines an analyser is constructed for: the statements that the
\* walk gets checks from, and one it gets none from
AnalyserStmtSet ==
    {"self.a", "self.f()", "self.a = 1", "x = self.a", "self.f(self.a)", "self.a.b"}

AnalyserSources ==
    {s \in Sources : \A j \in 1..Len(s.stmts) : s.stmts[j] \in AnalyserStmtSet}

InitAnalyser ==
    /\ source \in AnalyserSources
    /\ subject \in Subjects
    /\ IdleState
    /\ State_init({}) /\ IdleConditionState
    /\ IdleWhitespace /\ IdleTransformer /\ IdleAnalyser

NextAnalyser ==
    \/ StateAttributeAnalyser_init
    \/ analyse
    \/ reset

SpecAnalyser == InitAnalyser /\ [][NextAnalyser]_vars


(***************************************************************************)
(* Calls of the whitespace functions on every string up to MaxLen.         *)
(***************************************************************************)
RECURSIVE StringsOfLen(_)
StringsOfLen(n) ==
    IF n = 0 THEN {<<>>}
    ELSE {<<c>> \o s : c \in Chars, s \in StringsOfLen(n - 1)}

Strings == UNION {StringsOfLen(n) : n \in 0..MaxLen}

InitWhitespace ==
    /\ ws_s \in Strings
    /\ ws_num_del \in 0..MaxDel
    /\ ws_op = "none"
    /\ ws_out = NoCall
    /\ IdleTransformer /\ IdleInputs /\ IdleState /\ IdleAnalyser
    /\ State_init({}) /\ IdleConditionState

Call_del_spaces ==
    /\ ws_op' = "del_spaces"
    /\ ws_out' = del_spaces(ws_s, ws_num_del)
    /\ UNCHANGED <<ws_s, ws_num_del, tr_vars, in_vars, st_vars, an, ob_vars>>

Call_num_spaces ==
    /\ ws_op' = "num_spaces"
    /\ ws_out' = Return(num_spaces(ws_s))
    /\ UNCHANGED <<ws_s, ws_num_del, tr_vars, in_vars, st_vars, an, ob_vars>>

Call_unindent_block ==
    /\ ws_op' = "unindent_block"
    /\ ws_out' = unindent_block(ws_s)
    /\ UNCHANGED <<ws_s, ws_num_del, tr_vars, in_vars, st_vars, an, ob_vars>>

NextWhitespace ==
    \/ Call_del_spaces
    \/ Call_num_spaces
    \/ Call_unindent_block

SpecWhitespace == InitWhitespace /\ [][NextWhitespace]_vars

(***************************************************************************)
(* Visits of the transformers on the trees of every body of at most        *)
(* MaxStmts statements.                                                    *)
(***************************************************************************)
InitTransformer ==
    /\ tr_in \in {TreeOf(b) : b \in Bodies}
    /\ tr_op = "none"
    /\ tr_out = NoTree
    /\ tr_back = NoTree
    /\ IdleWhitespace /\ IdleInputs /\ IdleState /\ IdleAnalyser
    /\ State_init({}) /\ IdleConditionState

Visit_StateCodeTransformer ==
    /\ tr_op' = "StateCodeTransformer"
    /\ tr_out' = StateCodeTransformer_visit(tr_in)
    /\ tr_back' = NoTree
    /\ UNCHANGED <<tr_in, ws_vars, in_vars, st_vars, an, ob_vars>>

Visit_StateCodeReverseTransformer ==
    /\ tr_op' = "StateCodeReverseTransformer"
    /\ tr_out' = StateCodeReverseTransformer_visit(tr_in)
    /\ tr_back' = NoTree
    /\ UNCHANGED <<tr_in, ws_vars, in_vars, st_vars, an, ob_vars>>

\* the visit _ast_unparse makes: StateCodeReverseTransformer on a tree that
\* StateCodeTransformer returned
Visit_StateCodeReverseTransformer_of_transformed ==
    /\ tr_op = "StateCodeTransformer"
    /\ tr_back' = StateCodeReverseTransformer_visit(tr_out)
    /\ UNCHANGED <<tr_in, tr_op, tr_out, ws_vars, in_vars, st_vars, an, ob_vars>>

NextTransformer ==
    \/ Visit_StateCodeTransformer
    \/ Visit_StateCodeReverseTransformer
    \/ Visit_StateCodeReverseTransformer_of_transformed

SpecTransformer == InitTransformer /\ [][NextTransformer]_vars

(***************************************************************************)
(* SpecCondition: a ConditionState is constructed and executed once while  *)
(* other threads request preemption and shutdown.                          *)
(***************************************************************************)
InitCondition ==
    /\ cs \in {ConditionState_new(max_checks, timeout) :
                 max_checks \in {-1} \cup (0..MaxChecks), timeout \in {0, 1}}
    /\ now = 0
    /\ State_init({"true", "false", "preempted"})
    /\ IdleWhitespace /\ IdleTransformer /\ IdleInputs /\ IdleState /\ IdleAnalyser

NextCondition ==
    \/ execute_start \/ execute_while \/ execute_timeout
    \/ execute_preempt_check \/ execute_service_preempt
    \/ execute_cond_cb \/ execute_sleep
    \/ execute_final_check \/ execute_final_service_preempt
    \/ execute_return
    \/ request_preempt
    \/ request_shutdown
    \/ Tick

SpecCondition == InitCondition /\ [][NextCondition]_vars

(***************************************************************************)
(* SpecState: the methods of a State are called in any order, and between  *)
(* the calls the caller gives the subject an attribute, or takes one away. *)
(***************************************************************************)
\* setattr(state, name, value) and delattr(state, name) by the caller
set_attribute ==
    /\ \E name \in DOMAIN subject : \E kind \in {"missing", "str", "method"} :
          /\ [subject EXCEPT ![name] = kind] \in Subjects
          /\ subject' = [subject EXCEPT ![name] = kind]
    /\ UNCHANGED <<source, ws_vars, tr_vars, st_vars, an, ob_vars>>

\* the routines of the states: one statement, indented by spaces
StateSources ==
    {[filename |-> Filename, lineno |-> FirstLine,
      code |-> <<DefLine, Line(Indent)>>, stmts |-> <<stmt>>] :
        stmt \in {"self.a", "self.f()"}}

InitState ==
    /\ source \in StateSources
    /\ subject \in Subjects
    /\ IdleState
    /\ State_init({}) /\ IdleConditionState
    /\ IdleWhitespace /\ IdleTransformer /\ IdleAnalyser

NextState ==
    \/ check_member_variables
    \/ set_attribute
    \/ register_outcomes
    \/ register_io_keys
    \/ register_input_keys
    \/ register_output_keys
    \/ request_preempt
    \/ service_preempt
    \/ recall_preempt
    \/ request_shutdown

SpecState == InitState /\ [][NextState]_vars

(***************************************************************************)
(* Claims about the whitespace functions.                                  *)
(***************************************************************************)
\* blank: empty or whitespace only
IsBlank(line) == strip(line) = <<>>

\* the number of leading spaces of a line
RECURSIVE LeadingSpaces(_)
LeadingSpaces(line) ==
    IF line # <<>> /\ Head(line) = " " THEN 1 + LeadingSpaces(Tail(line)) ELSE 0

MinIndent(lines) ==
    CHOOSE m \in 0..MaxLen :
        /\ \E i \in 1..Len(lines) : ~IsBlank(lines[i]) /\ LeadingSpaces(lines[i]) = m
        /\ \A i \in 1..Len(lines) : ~IsBlank(lines[i]) => LeadingSpaces(lines[i]) >= m

\* C7: for every multi-line fragment without tabs, unindent_block removes
\* exactly m leading spaces from every non-blank line, m being the least
\* number of leading spaces of the non-blank lines, and returns the blank
\* lines (empty or whitespace only) unchanged.
C7_UnindentRemovesMinIndent ==
    LET lines == splitlines(ws_s, TRUE)
    IN  (/\ ws_op = "unindent_block"
         /\ ~HasTab(ws_s)
         /\ Len(lines) >= 2
         /\ \E i \in 1..Len(lines) : ~IsBlank(lines[i]))
        => /\ ws_out.exc = ""
           /\ ws_out.val =
                join(<<>>, [i \in 1..Len(lines) |->
                              IF IsBlank(lines[i]) THEN lines[i]
                              ELSE SliceFrom(lines[i], MinIndent(lines))])

\* C9: for a line with tabs and text that is not whitespace, del_spaces
\* raises ValueError "No tabs allowed in lines with not only whitespace:
\* <repr of the line>" for every num_del, 0 included; a line of tabs only is
\* returned unchanged for every num_del.
C9_DelSpacesRejectsTabs ==
    (/\ ws_op = "del_spaces"
     /\ HasTab(ws_s)
     /\ FindLF(ws_s, 1) = 0)
    => /\ (\A i \in 1..Len(ws_s) : ws_s[i] = "\t") => ws_out = Return(ws_s)
       /\ ~IsBlank(ws_s) =>
             /\ ws_out.exc = "ValueError"
             /\ ws_out.msg = "No tabs allowed in lines with not only whitespace: "
                             \o Repr(ws_s)

(***************************************************************************)
(* Claims about State.check_member_variables, stated on the routine as it  *)
(* is written: the statements of the source, before any rewrite.           *)
(***************************************************************************)
\* every node of a tree
RECURSIVE Nodes(_)
Nodes(node) ==
    {node} \cup
    UNION {UNION {Nodes(node.fields[i].items[j]) : j \in DOMAIN node.fields[i].items} :
             i \in DOMAIN node.fields}

\* self.<name>
IsSelfAttr(n) ==
    /\ n.type = "Attribute"
    /\ ChildOf(n, "value").type = "Name"
    /\ ChildOf(n, "value").name = "self"

\* self.<name>(...)
IsSelfCall(n) == n.type = "Call" /\ IsSelfAttr(ChildOf(n, "func"))

\* the nodes of the j-th statement of the routine
StmtNodes(j) == Nodes(ParseStmt(source.stmts[j]))

\* the line in the file of the j-th statement of the routine
StmtFileLine(j) ==
    source.lineno
    + SelectSeq([i \in 1..(Len(source.code) - 1) |-> i],
                LAMBDA i : \E k \in 1..Len(source.code[i + 1]) :
                              source.code[i + 1][k] = "x")[j]

\* the call got as far as the walk: the body was normalized and parsed
Walked ==
    /\ outcome.called
    /\ outcome.exc \notin {"ValueError", "IndentationError", "SyntaxError"}

Returned == outcome.called /\ outcome.exc = ""

Missing(name) == subject[name] = "missing"

FileLine(n) == "\n  File \"" \o source.filename \o "\", line " \o ToString(n) \o "\n\t"

Reported(msg) == \E i \in 1..Len(exceptions) : exceptions[i] = msg

\* C1: if check_member_variables returns normally, every attribute the body
\* of execute reads or invokes through self exists on the subject and every
\* member it calls through self is callable, wherever in the body the access
\* is.
C1_ValidationSound ==
    Returned =>
        \A j \in 1..Len(source.stmts) : \A n \in StmtNodes(j) :
            /\ (IsSelfAttr(n) /\ ChildOf(n, "ctx").type = "Load") => ~Missing(n.name)
            /\ IsSelfCall(n) => subject[ChildOf(n, "func").name] = "method"

\* the checks that fail on the subject, in the order of _lines
FailedLines ==
    SelectSeq(_lines,
              LAMBDA l : exec(StateAttributeAnalyser(subject, "", 0), l.expr).exc # "")

\* C2: every collected check is evaluated, also after one that fails; if any
\* fails, one AssertionError is raised whose text is "\nIncorrect call(s):"
\* and then the messages of all failed checks, in the order of the statements
\* of the routine, joined by line feeds; if none fails nothing is raised.
C2_NoShortCircuit ==
    Walked =>
        /\ Len(exceptions) = Len(FailedLines)
        /\ \A i \in 1..Len(exceptions) :
              exceptions[i] = exec(StateAttributeAnalyser(subject, "", 0),
                                   FailedLines[i].expr).msg
        /\ \A i \in 1..Len(_lines) : \A k \in i..Len(_lines) :
              _lines[i].lineno <= _lines[k].lineno
        /\ IF FailedLines = <<>> THEN outcome.exc = ""
           ELSE /\ outcome.exc = "AssertionError"
                /\ outcome.msg = "\nIncorrect call(s):" \o JoinStr("\n", exceptions)

\* a call with two failed checks on different lines and a passing check
\* after the first failed one
C2_Witness ==
    /\ Walked
    /\ Len(exceptions) >= 2
    /\ outcome.exc = "AssertionError"
    /\ \E i \in 1..Len(_lines) : \E k \in (i + 1)..Len(_lines) :
          \E m \in (k + 1)..Len(_lines) :
            /\ exec(StateAttributeAnalyser(subject, "", 0), _lines[i].expr).exc # ""
            /\ exec(StateAttributeAnalyser(subject, "", 0), _lines[k].expr).exc = ""
            /\ exec(StateAttributeAnalyser(subject, "", 0), _lines[m].expr).exc # ""
            /\ _lines[i].lineno < _lines[m].lineno

\* every attribute the routine refers to exists and every member it calls
\* is callable
AllValid ==
    \A j \in 1..Len(source.stmts) :
        \A n \in Nodes(StateCodeTransformer_visit(ParseStmt(source.stmts[j]))) :
            /\ n.type = "Attribute" =>
                  Eval(StateAttributeAnalyser(subject, "", 0), n).exc = ""
            /\ n.type = "Call" =>
                  callable(Eval(StateAttributeAnalyser(subject, "", 0),
                                ChildOf(n, "func")).val)

\* C3: member_variables_checked is false on a new State; a call of
\* check_member_variables that returns normally leaves it true, as does every
\* call that gets as far as the walk on a subject whose every referenced
\* attribute exists and every called member is callable; a call on an
\* unchecked subject that raises leaves it unset.
C3_FlagGate ==
    /\ ~member_variables_checked
    /\ [][outcome'.called =>
            /\ (outcome'.exc = "" => member_variables_checked')
            /\ (AllValid /\ outcome'.exc \notin
                               {"ValueError", "IndentationError", "SyntaxError"}
                  => member_variables_checked')
            /\ (outcome'.exc # "" /\ ~member_variables_checked
                  => ~member_variables_checked')]_vars

\* a call on an unchecked subject raised the aggregated error
C3_Witness ==
    /\ outcome.called
    /\ outcome.exc = "AssertionError"
    /\ ~member_variables_checked
    /\ ~AllValid

\* C4: when the body accesses self.<name> and <name> does not exist on the
\* subject, the call raises an AssertionError whose text contains the message
\* '\n  File "<path>", line <n>\n\t'self' has no attribute '<name>'', <n> the
\* line in the file of the statement with the access.
C4_MissingAttributeReported ==
    Walked =>
        \A j \in 1..Len(source.stmts) : \A n \in StmtNodes(j) :
            (IsSelfAttr(n) /\ Missing(n.name)) =>
                /\ outcome.exc = "AssertionError"
                /\ Reported(FileLine(StmtFileLine(j))
                            \o "'self' has no attribute '" \o n.name \o "'")

\* C5: when the body calls self.<member>(...) and <member> exists on the
\* subject but is not callable, the call raises an AssertionError whose text
\* contains '\n  File "<path>", line <n>\n\t'<the call as written>' object is
\* not callable'.
C5_NonCallableReported ==
    Walked =>
        \A j \in 1..Len(source.stmts) : \A n \in StmtNodes(j) :
            (IsSelfCall(n) /\ subject[ChildOf(n, "func").name] \in {"str", "object"}) =>
                /\ outcome.exc = "AssertionError"
                /\ Reported(FileLine(StmtFileLine(j))
                            \o "'" \o to_source(n) \o "' object is not callable")

\* self.<name> = value
IsSelfAssign(n) ==
    /\ n.type = "Assign"
    /\ \E t \in 1..Len(ItemsOf(n, "targets")) : IsSelfAttr(ItemsOf(n, "targets")[t])

\* C6: when the body assigns to self.<name> and <name> was not defined on
\* the instance before, the call raises AssertionError; an assignment to an
\* attribute defined in the constructor causes no failure.
C6_AssignmentTargetsValidated ==
    Walked =>
        /\ \A j \in 1..Len(source.stmts) : \A n \in StmtNodes(j) :
              (IsSelfAssign(n) /\ Missing(ItemsOf(n, "targets")[1].name))
                  => outcome.exc = "AssertionError"
        /\ ((\A j \in 1..Len(source.stmts) : source.stmts[j] = "self.a = 1")
               /\ ~Missing("a"))
              => outcome.exc = ""


\* the check of this kind on the access site n (a node of the routine as
\* written) in statement j is among the collected checks
Checked(kind, n, j) ==
    \E i \in 1..Len(_lines) :
        /\ _lines[i].expr.kind = kind
        /\ _lines[i].lineno = StmtFileLine(j)
        /\ IF kind = "hasattr"
           THEN /\ _lines[i].expr.attr = n.name
                /\ _ast_unparse(_lines[i].expr.target) = to_source(ChildOf(n, "value"))
           ELSE _ast_unparse(_lines[i].expr.target) = to_source(ChildOf(n, "func"))

\* C13: the walk goes into every field of every node it visits, so an
\* access site in any field of a node (the value of an Assign, the args of a
\* Call, the right operand of a BinOp, the body of an If) is visited and
\* gets its check.
C13_EveryFieldWalked ==
    Walked =>
        \A j \in 1..Len(source.stmts) : \A n \in StmtNodes(j) :
            /\ IsSelfAttr(n) => Checked("hasattr", n, j)
            /\ IsSelfCall(n) => Checked("callable", n, j)

\* the message of a collected check has the file, the line of a statement of
\* the routine and the expression as written
Located(l) ==
    \E j \in 1..Len(source.stmts) :
        IF l.expr.kind = "hasattr"
        THEN l.expr.msg = FileLine(StmtFileLine(j)) \o "'"
                          \o _ast_unparse(l.expr.target)
                          \o "' has no attribute '" \o l.expr.attr \o "'"
        ELSE \E n \in StmtNodes(j) :
                /\ n.type = "Call"
                /\ l.expr.msg = FileLine(StmtFileLine(j)) \o "'" \o to_source(n)
                                 \o "' object is not callable"

\* C15: every failure message in the aggregated error has the file, the
\* line and the expression in the form '  File "<path>", line <n>', also
\* when the evaluation of the check raises instead of asserting false.
C15_EveryMessageLocated ==
    Walked =>
        \A i \in 1..Len(exceptions) :
            \E k \in 1..Len(_lines) :
                exceptions[i] = _lines[k].expr.msg /\ Located(_lines[k])

\* C16: every attribute access and every call rooted at self in the routine
\* as written gives exactly one check, and the self._state of the rewrite
\* gives none of its own: a body that is the one statement self.a gives
\* exactly one check.
C16_OneCheckPerSite ==
    Walked =>
        /\ \A i \in 1..Len(_lines) : _lines[i].expr.attr # "_state"
        /\ source.stmts = <<"self.a">> => Len(_lines) = 1
        /\ source.stmts = <<"self.f()">> => Len(_lines) = 2
        /\ source.stmts = <<"self.a", "self.a">> => Len(_lines) = 2
(***************************************************************************)
(* Claims about the constructor of StateAttributeAnalyser (state_checks).  *)
(***************************************************************************)
\* a line of the body of the routine that is not blank has a tab
BodyHasTab ==
    \E i \in 2..Len(source.code) : ~IsBlank(source.code[i]) /\ HasTab(source.code[i])

\* C8: whenever a line of the body of the routine that is not blank has a
\* tab, normalization fails with a ValueError before any check is
\* synthesized or evaluated: the tab is never turned into spaces and the
\* validation does not go on.
C8_TabsRejected ==
    (an.init.called /\ BodyHasTab) =>
        /\ an.init.exc = "ValueError"
        /\ ~an.constructed
        /\ an.self._lines = <<>>
        /\ an.analysed = 0

\* the access site of a collected check is in the j-th statement of the
\* routine, and the message of the check names the line of that statement
SiteIn(l, j) ==
    \E n \in Nodes(StateCodeTransformer_visit(ParseStmt(source.stmts[j]))) :
        IF l.expr.kind = "hasattr"
        THEN /\ n.type = "Attribute"
             /\ n.name = l.expr.attr
             /\ to_source(ChildOf(n, "value")) = to_source(l.expr.target)
             /\ l.expr.msg = FileLine(StmtFileLine(j)) \o "'"
                             \o _ast_unparse(ChildOf(n, "value"))
                             \o "' has no attribute '" \o n.name \o "'"
        ELSE /\ n.type = "Call"
             /\ to_source(ChildOf(n, "func")) = to_source(l.expr.target)
             /\ l.expr.msg = FileLine(StmtFileLine(j)) \o "'" \o _ast_unparse(n)
                             \o "' object is not callable"

C17_SecondWalkStartsEmpty ==
    [][(an.analysed >= 1 /\ an'.analysed = an.analysed + 1) =>
           /\ an'.exceptions = an.exceptions
           /\ an'.result = an.result]_vars

(***************************************************************************)
(* Claims about the transformers.                                          *)
(***************************************************************************)
\* out is node with every Name self in it replaced by self._state at the
\* position of the Name, and nothing else changed
RECURSIVE ReceiverRewritten(_, _)
ReceiverRewritten(node, out) ==
    IF node.type = "Name" /\ node.name = "self"
    THEN /\ out.type = "Attribute"
         /\ out.name = "_state"
         /\ out.lineno = node.lineno
         /\ out.col_offset = node.col_offset
         /\ [i \in DOMAIN out.fields |-> out.fields[i].fname] = <<"value", "attr", "ctx">>
         /\ ItemsOf(out, "value") = <<node>>
         /\ ItemsOf(out, "ctx") = <<Load>>
    ELSE /\ out.type = node.type
         /\ out.name = node.name
         /\ out.lineno = node.lineno
         /\ out.col_offset = node.col_offset
         /\ DOMAIN out.fields = DOMAIN node.fields
         /\ \A i \in DOMAIN node.fields :
               /\ out.fields[i].fname = node.fields[i].fname
               /\ out.fields[i].kind = node.fields[i].kind
               /\ DOMAIN out.fields[i].items = DOMAIN node.fields[i].items
               /\ \A j \in DOMAIN node.fields[i].items :
                     ReceiverRewritten(node.fields[i].items[j], out.fields[i].items[j])

\* C10: StateCodeTransformer replaces every Name node whose id is self by
\* the attribute access self._state at the same source position, and leaves
\* every other identifier and every other node of the tree unchanged.
C10_ReceiverRewrite ==
    tr_op = "StateCodeTransformer" => ReceiverRewritten(tr_in, tr_out)

\* a tree with a Name self that is not in column 0 and a Name that is not
\* self was transformed
C10_Witness ==
    /\ tr_op = "StateCodeTransformer"
    /\ tr_out # tr_in
    /\ \E n \in Nodes(tr_in) :
          n.type = "Name" /\ n.name = "self" /\ n.col_offset > 0 /\ n.lineno > 0
    /\ \E n \in Nodes(tr_in) : n.type = "Name" /\ n.name # "self"

\* the text of every expression of a tree, statement by statement
RECURSIVE Rendered(_)
Rendered(node) ==
    IF node.type \in {"Name", "Num", "Attribute", "Call", "BinOp"}
    THEN <<to_source(node)>>
    ELSE <<node.type>> \o
         [i \in DOMAIN node.fields |->
            [j \in DOMAIN node.fields[i].items |-> Rendered(node.fields[i].items[j])]]

\* self._state occurs in the tree
HasIndirection(tree) ==
    \E n \in Nodes(tree) : IsSelfAttr(n) /\ n.name = "_state"

\* C11: StateCodeReverseTransformer applied to StateCodeTransformer(t) gives
\* a tree that renders to the same source as t: self._state.x is self.x
\* again, and the internal self._state is nowhere in it.
C11_RoundTrip ==
    tr_back # NoTree =>
        /\ Rendered(tr_back) = Rendered(tr_in)
        /\ tr_back = tr_in
        /\ ~HasIndirection(tr_back)

\* a tree with self in it went through both transformers
C11_Witness ==
    /\ tr_back # NoTree
    /\ HasIndirection(tr_out)
    /\ \E n \in Nodes(tr_in) : n.type = "Call" /\ ItemsOf(n, "args") # <<>>

(***************************************************************************)
(* Claims about ConditionState.execute.                                    *)
(***************************************************************************)
\* C12: with max_checks = N >= 1, no timeout, no preempt and a condition
\* callback that always returns false, execute calls the callback exactly N
\* times, never more than max_checks, and then returns 'false'.
C12_CheckBudget ==
    (/\ cs.max_checks >= 1
     /\ cs.timeout = 0
     /\ requests = <<>>
     /\ \A i \in 1..Len(cs.results) : cs.results[i] = "false")
    => /\ Len(cs.results) <= cs.max_checks
       /\ cs.pc = "done" => (Len(cs.results) = cs.max_checks /\ cs.ret = "false")

\* where execute is before it has read the flag for the last time
BeforeFinalCheck ==
    {"idle", "while", "timeout", "preempt_check", "service_preempt", "cond_cb",
     "sleep", "final_check"}

\* C19: if another thread called request_preempt or request_shutdown before
\* the last test of the flag in execute, execute returns 'preempted' and has
\* called service_preempt, also when the callback had returned true or the
\* budget or the timeout was used up, and the flag is false when execute
\* returns unless it was requested again after that test was serviced;
\* execute returns no outcome other than 'true', 'false' and 'preempted'.
C19_PreemptWins ==
    cs.pc = "done" =>
        /\ cs.ret \in {"true", "false", "preempted"}
        /\ cs.ret \in _outcomes
        /\ (\E i \in 1..Len(requests) : requests[i] \in BeforeFinalCheck) =>
              /\ cs.ret = "preempted"
              /\ cs.serviced
              /\ (\A i \in 1..Len(requests) : requests[i] \notin {"return", "done"})
                    => ~_preempt_requested

\* execute returned 'preempted' although the callback had returned true
\* before any thread requested preemption
C19_Witness ==
    /\ cs.pc = "done"
    /\ cs.ret = "preempted"
    /\ ~_preempt_requested
    /\ cs.results # <<>>
    /\ cs.results[Len(cs.results)] = "true"
    /\ requests # <<>>
    /\ \A i \in 1..Len(requests) : requests[i] = "final_check"

(***************************************************************************)
(* Claims about the methods of State.                                      *)
(***************************************************************************)
\* C18: once member_variables_checked is true no method of State sets it
\* back to false: not the register methods, not the preempt and shutdown
\* methods, and not a later check_member_variables that raises.
C18_FlagMonotonic ==
    [][member_variables_checked => member_variables_checked']_vars

\* a validation failed on a subject that had been validated, after its
\* outcomes and keys were registered and a preempt was requested
C18_Witness ==
    /\ member_variables_checked
    /\ outcome.exc = "AssertionError"
    /\ _outcomes # {} /\ _input_keys # {} /\ _output_keys # {}
    /\ _shutdown_requested
    /\ ~_preempt_requested

=============================================================================
